---- MODULE Spec2Model ----
(***************************************************************************)
(* Resonant Memory Modulation (RMM): the four-stage reprocessing cycle of  *)
(* src/Code.py (value-score threshold trigger) and of the two engines of   *)
(* src/Code3.py (keyword-and-chance trigger, lines 1-260; pure-chance      *)
(* trigger, lines 263-494).                                                *)
(*                                                                         *)
(* Numbers are fixed point: one unit is 1/Scale, so 1.0 is 10000 units.    *)
(* A call of random.uniform(a, b) is a choice among sample points of       *)
(* [a, b]; random.random() < p is a choice of TRUE or FALSE.               *)
(* Texts are sequences of words; `kw in text.lower()` is decided per word  *)
(* by Lower and Infixes.                                                   *)
(***************************************************************************)
EXTENDS Integers, Sequences, FiniteSets, TLC

VARIABLES
    variant,            \* which engine this RMMModel is
    memories,           \* RMMModel.memories: identifier -> Memory
    current_modulation, \* EndocannabinoidSystem.current_modulation
    pc,                 \* position of run_rmm_cycle
    cur,                \* the `memory` handle of the running cycle (its identifier)
    outcome,            \* the outcome of re-evaluation of the running / last cycle
    signal,             \* what get_feedback_signal returned in the running / last cycle
    old_scores,         \* Code.py line 104: the copy of the scores taken at cycle start
    trace,              \* history: the steps the running / last cycle has executed
    pre,                \* history: memories when the last run_rmm_cycle was entered
    pre_mod,            \* history: current_modulation when it was entered
    lastop,             \* history: the last operation called, [op, id], and for
                        \* add_memory its other arguments
    done,               \* history: cycles completed on the memory now stored under id
    nadds,              \* history: number of add_memory calls so far
    ncycles,            \* history: number of run_rmm_cycle calls so far,
                        \* found or not
    scored              \* the last call of language_ai_nn.predict made from
                        \* outside the engine: [text, scores]

vars == <<variant, memories, current_modulation, pc, cur, outcome, signal,
          old_scores, trace, pre, pre_mod, lastop, done, nadds, ncycles, scored>>

(***************************************************************************)
(* Bounds of the model.                                                    *)
(***************************************************************************)
\* calls of add_memory and run_rmm_cycle in one run
MaxOps == 3
\* the same, in the runs of one memory without perturbation
MaxOpsLong == 12
\* how many principles of the table are scored
NumPrinciples == 2

Scale == 100 * 100

Min(a, b) == IF a < b THEN a ELSE b
Max(a, b) == IF a > b THEN a ELSE b

(***************************************************************************)
(* Inputs.                                                                 *)
(***************************************************************************)
IDs == {"m1", "m2"}
LongIDs == {"m1"}

TPlain == <<"School", "rules">>
TBoast == <<"Boastful", "and", "upset", "again">>
TMixed == <<"humble", "but", "arrogant">>
TModest == <<"Modest", "and", "present">>

\* the texts given to the scorer on its own
Texts == {TPlain, TBoast, TMixed, TModest}

\* the arguments of add_memory; the valences are above the range, below it
\* and inside it (0.95, and 0 in the long runs)
AddInputs ==
    {[content |-> TPlain, inference |-> TBoast, valence |-> 2 * Scale],
     [content |-> TBoast, inference |-> TMixed, valence |-> 0 - (3 * Scale) \div 2],
     [content |-> TPlain, inference |-> TPlain, valence |-> (95 * Scale) \div 100]}
LongInputs == {[content |-> TBoast, inference |-> TBoast, valence |-> 0]}

\* sample points of random.uniform(-0.1, 0.1) and random.uniform(-0.05, 0.05)
StrengthDraws == {0 - Scale \div 10, Scale \div 10}
ValenceDraws == {0 - Scale \div 20, Scale \div 20}
LongDraws == {0}

(***************************************************************************)
(* Text: str.lower() and the substring test, word by word.                 *)
(***************************************************************************)
Lower(w) ==
    CASE w = "Boastful" -> "boastful"
      [] w = "School" -> "school"
      [] w = "Improved" -> "improved"
      [] w = "Modest" -> "modest"
      [] OTHER -> w

\* the keywords that occur inside a lower-case word
Infixes(lw) ==
    CASE lw = "again" -> {"gain"}
      [] lw = "present" -> {"resent"}
      [] OTHER -> {lw}

Contains(kw, text) == \E i \in DOMAIN text : kw \in Infixes(Lower(text[i]))

(***************************************************************************)
(* ConceptualLanguageAI_NN (Code.py)                                       *)
(***************************************************************************)
AllPrinciples == <<"Pride", "Envy", "Gluttony", "Lust", "Anger", "Greed", "Sloth">>

value_spectrum_keywords ==
    [p \in {AllPrinciples[i] : i \in 1..Len(AllPrinciples)} |->
        CASE p = "Pride" -> [sin |-> {"superior", "arrogant", "boastful"}, virtue |-> {"humble", "modest"}]
          [] p = "Envy" -> [sin |-> {"jealous", "resent"}, virtue |-> {"admiration", "contentment"}]
          [] p = "Gluttony" -> [sin |-> {"excessive", "overeat"}, virtue |-> {"temperance", "moderation"}]
          [] p = "Lust" -> [sin |-> {"desire", "sensual"}, virtue |-> {"chastity", "restraint"}]
          [] p = "Anger" -> [sin |-> {"angry", "furious"}, virtue |-> {"patience", "calm"}]
          [] p = "Greed" -> [sin |-> {"selfish", "hoard"}, virtue |-> {"generosity", "altruism"}]
          [] p = "Sloth" -> [sin |-> {"lazy", "idle"}, virtue |-> {"diligence", "zeal"}]]

\* the principles the model scores: the first NumPrinciples of the table
value_principles == {AllPrinciples[i] : i \in 1..Min(NumPrinciples, Len(AllPrinciples))}

sin_score(p, text) == Cardinality({w \in value_spectrum_keywords[p].sin : Contains(w, text)})
virtue_score(p, text) == Cardinality({w \in value_spectrum_keywords[p].virtue : Contains(w, text)})

\* mutant: a negative keyword decides, whatever the positive ones
Band_sin_first(p, text) ==
    IF sin_score(p, text) > 0 THEN <<(7 * Scale) \div 10, Scale>>
    ELSE IF virtue_score(p, text) > 0 THEN <<0, (3 * Scale) \div 10>>
    ELSE <<(35 * Scale) \div 100, (65 * Scale) \div 100>>

\* the band [lo, hi] that random.uniform draws the base score from
Band(p, text) ==
    IF sin_score(p, text) > 0 /\ virtue_score(p, text) = 0 THEN <<(7 * Scale) \div 10, Scale>>
    ELSE IF virtue_score(p, text) > 0 /\ sin_score(p, text) = 0 THEN <<0, (3 * Scale) \div 10>>
    ELSE IF sin_score(p, text) > 0 /\ virtue_score(p, text) > 0 THEN <<(3 * Scale) \div 10, (7 * Scale) \div 10>>
    ELSE <<(35 * Scale) \div 100, (65 * Scale) \div 100>>

\* sample points of the two draws of one score, <<t, j>>: the base score is the
\* lower (t = 0) or upper (t = 1) end of the band, j is the jitter
\* random.uniform(-0.05, 0.05)
ScoreDraws == {<<0, 0 - Scale \div 20>>, <<1, Scale \div 20>>}

\* round(x, 2): to the nearest hundredth, ties to even
Round2(x) ==
    LET h == Scale \div 100
        q == x \div h
        r == x % h
    IN  IF 2 * r < h THEN q * h
        ELSE IF 2 * r > h THEN (q + 1) * h
        ELSE IF q % 2 = 0 THEN q * h ELSE (q + 1) * h

\* mutant: the jittered score is rounded without being clamped
ScoreSet_unclamped(p, text) ==
    {Round2(Band(p, text)[1 + d[1]] + d[2]) : d \in ScoreDraws}

\* the scores one principle can get for a text
ScoreSet(p, text) ==
    {Round2(Max(0, Min(Scale, Band(p, text)[1 + d[1]] + d[2]))) : d \in ScoreDraws}

NoScores == [p \in {} |-> 0]

\* the score mappings over the principles P, one independent draw per principle
RECURSIVE ScoreMaps(_, _)
ScoreMaps(P, text) ==
    IF P = {} THEN {NoScores}
    ELSE LET p == CHOOSE x \in P : TRUE
         IN  {[q \in DOMAIN s \cup {p} |-> IF q = p THEN v ELSE s[q]] :
                 s \in ScoreMaps(P \ {p}, text), v \in ScoreSet(p, text)}

\* the results predict(text) can return
predict(text) == ScoreMaps(value_principles, text)

(***************************************************************************)
(* Memory                                                                  *)
(***************************************************************************)
Memory(identifier, content, initial_inference, initial_valence) ==
    [identifier |-> identifier,
     content |-> content,
     current_inference |-> initial_inference,
     initial_valence |-> initial_valence,
     current_valence |-> initial_valence,
     strength |-> Scale,
     reprocessing_count |-> 0,
     is_adaptive |-> FALSE,
     value_alignment_scores |-> NoScores,
     agreement_shift |-> 0,
     mischievous_shift |-> 0]

(***************************************************************************)
(* EndocannabinoidSystem                                                   *)
(***************************************************************************)
baseline_modulation_strength == Scale \div 10

MinStrength == Scale \div 10

\* mutant: any other outcome leaves the modulation as the last call set it
get_feedback_signal_sticky(o) ==
    IF o = "inference_corrected"
    THEN [modulation |-> (baseline_modulation_strength * 15) \div 10, signal |-> "plasticity_enhanced"]
    ELSE IF o = "dissonance_high"
    THEN [modulation |-> (baseline_modulation_strength * 5) \div 10, signal |-> "processing_needed"]
    ELSE [modulation |-> current_modulation, signal |-> "neutral"]

get_feedback_signal(o) ==
    IF o = "inference_corrected"
    THEN [modulation |-> (baseline_modulation_strength * 15) \div 10, signal |-> "plasticity_enhanced"]
    ELSE IF o = "dissonance_high"
    THEN [modulation |-> (baseline_modulation_strength * 5) \div 10, signal |-> "processing_needed"]
    ELSE [modulation |-> baseline_modulation_strength, signal |-> "neutral"]

\* mutant: the valence is not clamped after the perturbation
apply_modulation_unclamped(m, mod, us, uv) ==
    [m EXCEPT
        !.strength = Max(MinStrength, m.strength + (mod * us) \div Scale),
        !.current_valence = m.current_valence + (mod * uv) \div Scale]

\* us, uv: the two random.uniform draws
apply_modulation(m, mod, us, uv) ==
    [m EXCEPT
        !.strength = Max(MinStrength, m.strength + (mod * us) \div Scale),
        !.current_valence = Max(0 - Scale, Min(Scale, m.current_valence + (mod * uv) \div Scale))]

(***************************************************************************)
(* Statistics of a score mapping (Code.py lines 105-106, 110-111)          *)
(***************************************************************************)
RECURSIVE SumOver(_, _)
SumOver(f, S) ==
    IF S = {} THEN 0
    ELSE LET x == CHOOSE y \in S : TRUE IN f[x] + SumOver(f, S \ {x})

Mean(f) == SumOver(f, DOMAIN f) \div Cardinality(DOMAIN f)

\* the integer square root of n, one binary digit b at a time: r is the
\* part found so far
RECURSIVE SqrtFrom(_, _, _)
SqrtFrom(r, b, n) ==
    IF b = 0 THEN r
    ELSE IF (r + b) * (r + b) <= n THEN SqrtFrom(r + b, b \div 2, n)
    ELSE SqrtFrom(r, b \div 2, n)

\* the sample variance (ddof = 1)
Variance(f) ==
    LET sq == {[x \in DOMAIN f |-> (f[x] - mu) * (f[x] - mu)] : mu \in {Mean(f)}}
    IN  SumOver(CHOOSE g \in sq : TRUE, DOMAIN f) \div (Cardinality(DOMAIN f) - 1)

\* pandas Series.std(): the sample standard deviation
Std(f) == CHOOSE r \in {SqrtFrom(0, 16384, n) : n \in {Variance(f)}} : TRUE

Abs(x) == IF x < 0 THEN 0 - x ELSE x

(***************************************************************************)
(* RMMModel: the pure parts of the stages                                  *)
(***************************************************************************)
Code3Variants == {"keyword", "chance"}
Variants == {"threshold"} \cup Code3Variants

Threshold == (75 * Scale) \div 100

\* the text put before the content when an inference is corrected
Prefix(v) ==
    IF v = "threshold" THEN <<"Improved", "perspective:">>
    ELSE IF v = "keyword" THEN <<"updated", "interpretation", "based", "on", "value", "system", "for">>
    ELSE <<"updated", "interpretation", "for">>

\* mutant: a score on the threshold triggers too
trigger_inclusive(m) == \E k \in DOMAIN m.value_alignment_scores : m.value_alignment_scores[k] >= Threshold

\* mutant: every score has to be above the threshold
trigger_all(m) == \A k \in DOMAIN m.value_alignment_scores : m.value_alignment_scores[k] > Threshold

\* Code.py reevaluate, lines 120-122: is any score above the threshold
trigger(m) == \E k \in DOMAIN m.value_alignment_scores : m.value_alignment_scores[k] > Threshold

\* Code3.py lines 139-150: the principles whose keyword the inference holds
\* (each is then flagged when random.random() < 0.2)
value_system_principles == {"Greedy", "Angry", "Affiliational"}

ClashWord(p) == IF p = "Greedy" THEN "gain" ELSE IF p = "Angry" THEN "upset" ELSE "alone"

Flaggable(m) == {p \in value_system_principles : Contains(ClashWord(p), m.current_inference)}

\* mutant: the corrected valence is not capped at 1.0
rewrite_uncapped(m, o) ==
    IF o = "inference_corrected"
    THEN [m EXCEPT !.strength = (m.strength * 11) \div 10,
                   !.current_valence = m.current_valence + Scale \div 10]
    ELSE IF o = "dissonance_high"
    THEN [m EXCEPT !.strength = (m.strength * 8) \div 10,
                   !.current_valence = Max(0 - Scale, m.current_valence - Scale \div 10)]
    ELSE m

\* Code.py rewrite
rewrite(m, o) ==
    IF o = "inference_corrected"
    THEN [m EXCEPT !.strength = (m.strength * 11) \div 10,
                   !.current_valence = Min(Scale, m.current_valence + Scale \div 10)]
    ELSE IF o = "dissonance_high"
    THEN [m EXCEPT !.strength = (m.strength * 8) \div 10,
                   !.current_valence = Max(0 - Scale, m.current_valence - Scale \div 10)]
    ELSE m

\* Code3.py rewrite_memory (both engines)
rewrite_memory(m, o) ==
    IF o = "inference_corrected" \/ o = "plasticity_enhanced"
    THEN [m EXCEPT !.strength = (m.strength * 11) \div 10,
                   !.current_valence = Max(0 - Scale, Min(Scale, m.current_valence + Scale \div 10))]
    ELSE IF o = "dissonance_high"
    THEN [m EXCEPT !.strength = (m.strength * 8) \div 10,
                   !.current_valence = Max(0 - Scale, Min(Scale, m.current_valence - Scale \div 10))]
    ELSE m

\* mutant: retaining flips the flag
retain_toggle(m) == [m EXCEPT !.is_adaptive = ~@]

\* mutant: retaining starts the count again
retain_recount(m) == [m EXCEPT !.is_adaptive = TRUE, !.reprocessing_count = 0]

retain(m) == [m EXCEPT !.is_adaptive = TRUE]

\* mutant: the count is not incremented
reactivate_memory_uncounted(m) == m

\* mutant: a reactivated memory is no longer adaptive
reactivate_memory_labile(m) == [m EXCEPT !.reprocessing_count = @ + 1, !.is_adaptive = FALSE]

\* Code3.py reactivate_memory line 113, Code.py line 103
reactivate_memory(m) == [m EXCEPT !.reprocessing_count = @ + 1]

\* the collection with m stored under id
Store(coll, id, m) == [i \in DOMAIN coll \cup {id} |-> IF i = id THEN m ELSE coll[i]]

(***************************************************************************)
(* Initial state: RMMModel.__init__                                        *)
(***************************************************************************)
NoOp == [op |-> "none", id |-> "none"]

NoCall == [text |-> <<>>, scores |-> NoScores]

Init ==
    /\ variant \in Variants
    /\ memories = NoScores
    /\ current_modulation = baseline_modulation_strength
    /\ pc = "idle"
    /\ cur = "none"
    /\ outcome = "none"
    /\ signal = "none"
    /\ old_scores = NoScores
    /\ trace = <<>>
    /\ pre = NoScores
    /\ pre_mod = baseline_modulation_strength
    /\ lastop = NoOp
    /\ done = NoScores
    /\ nadds = 0
    /\ ncycles = 0
    /\ scored = NoCall

(***************************************************************************)
(* add_memory: one call, start to end.  Code.py scores the inference;      *)
(* Code3.py warns when the identifier exists; both store a new Memory      *)
(* under the identifier.                                                   *)
(***************************************************************************)
\* mutant: the memory is stored as constructed, without scoring the inference
add_memory_unscored(identifier, content, inference, valence, maxOps) ==
    /\ pc = "idle"
    /\ nadds + ncycles < maxOps
    /\ memories' = Store(memories, identifier, Memory(identifier, content, inference, valence))
    /\ done' = Store(done, identifier, 0)
    /\ lastop' = [op |-> "add", id |-> identifier, content |-> content,
                   inference |-> inference, valence |-> valence]
    /\ nadds' = nadds + 1
    /\ cur' = "none"
    /\ outcome' = "none"
    /\ signal' = "none"
    /\ old_scores' = NoScores
    /\ trace' = <<>>
    /\ pre' = NoScores
    /\ pre_mod' = current_modulation
    /\ UNCHANGED <<scored, variant, current_modulation, pc, ncycles>>

\* mutant: an identifier that is already stored keeps its memory
add_memory_reject(identifier, content, inference, valence, maxOps) ==
    /\ pc = "idle"
    /\ nadds + ncycles < maxOps
    /\ \E scores \in (IF variant = "threshold" THEN predict(inference) ELSE {NoScores}) :
          memories' = IF identifier \in DOMAIN memories THEN memories
                      ELSE Store(memories, identifier,
                                 [Memory(identifier, content, inference, valence)
                                     EXCEPT !.value_alignment_scores = scores])
    /\ done' = IF identifier \in DOMAIN memories THEN done ELSE Store(done, identifier, 0)
    /\ lastop' = [op |-> "add", id |-> identifier, content |-> content,
                   inference |-> inference, valence |-> valence]
    /\ nadds' = nadds + 1
    /\ cur' = "none"
    /\ outcome' = "none"
    /\ signal' = "none"
    /\ old_scores' = NoScores
    /\ trace' = <<>>
    /\ pre' = NoScores
    /\ pre_mod' = current_modulation
    /\ UNCHANGED <<scored, variant, current_modulation, pc, ncycles>>

add_memory(identifier, content, inference, valence, maxOps) ==
    /\ pc = "idle"
    /\ nadds + ncycles < maxOps
    /\ \E scores \in (IF variant = "threshold" THEN predict(inference) ELSE {NoScores}) :
          memories' = Store(memories, identifier,
                            [Memory(identifier, content, inference, valence)
                                EXCEPT !.value_alignment_scores = scores])
    /\ done' = Store(done, identifier, 0)
    /\ lastop' = [op |-> "add", id |-> identifier, content |-> content,
                   inference |-> inference, valence |-> valence]
    /\ nadds' = nadds + 1
    /\ cur' = "none"
    /\ outcome' = "none"
    /\ signal' = "none"
    /\ old_scores' = NoScores
    /\ trace' = <<>>
    /\ pre' = NoScores
    /\ pre_mod' = current_modulation
    /\ UNCHANGED <<scored, variant, current_modulation, pc, ncycles>>

(***************************************************************************)
(* run_rmm_cycle, step by step                                             *)
(***************************************************************************)
\* mutant: the failed lookup still reaches the ECS, with no outcome
NotFound_feedback(memory_id, maxOps) ==
    /\ pc = "idle"
    /\ nadds + ncycles < maxOps
    /\ memory_id \notin DOMAIN memories
    /\ current_modulation' = get_feedback_signal("no_memory").modulation
    /\ lastop' = [op |-> "notfound", id |-> memory_id]
    /\ ncycles' = ncycles + 1
    /\ pre' = memories
    /\ pre_mod' = current_modulation
    /\ trace' = <<>>
    /\ cur' = "none"
    /\ outcome' = "none"
    /\ signal' = "none"
    /\ old_scores' = NoScores
    /\ UNCHANGED <<scored, variant, memories, pc, done, nadds>>

\* the lookup fails: the message is printed and the call returns
NotFound(memory_id, maxOps) ==
    /\ pc = "idle"
    /\ nadds + ncycles < maxOps
    /\ memory_id \notin DOMAIN memories
    /\ lastop' = [op |-> "notfound", id |-> memory_id]
    /\ ncycles' = ncycles + 1
    /\ pre' = memories
    /\ pre_mod' = current_modulation
    /\ trace' = <<>>
    /\ cur' = "none"
    /\ outcome' = "none"
    /\ signal' = "none"
    /\ old_scores' = NoScores
    /\ UNCHANGED <<scored, variant, memories, current_modulation, pc, done, nadds>>

\* Stage 1: the lookup succeeds; Code.py also copies the scores (line 104)
Reactivate(memory_id, maxOps) ==
    /\ pc = "idle"
    /\ nadds + ncycles < maxOps
    /\ memory_id \in DOMAIN memories
    /\ memories' = [memories EXCEPT ![memory_id] = reactivate_memory(@)]
    /\ old_scores' = memories[memory_id].value_alignment_scores
    /\ cur' = memory_id
    /\ pc' = "reactivated"
    /\ trace' = <<"reactivate">>
    /\ lastop' = [op |-> "cycle", id |-> memory_id]
    /\ ncycles' = ncycles + 1
    /\ pre' = memories
    /\ pre_mod' = current_modulation
    /\ outcome' = "none"
    /\ signal' = "none"
    /\ UNCHANGED <<scored, variant, current_modulation, done, nadds>>

\* mutant: the new inference is built from the present inference
Corrected_from_inference(m) == [m EXCEPT !.current_inference = Prefix(variant) \o m.current_inference]

\* the memory with its inference corrected
Corrected(m) == [m EXCEPT !.current_inference = Prefix(variant) \o m.content]

\* mutant: a triggered correction can fail, as it can in Code3.py
reevaluate_may_fail(m) ==
    IF trigger(m)
    THEN {<<[Corrected(m) EXCEPT !.value_alignment_scores = s], "inference_corrected">> :
             s \in predict(Corrected(m).current_inference)} \cup {<<m, "dissonance_high">>}
    ELSE {<<m, "no_change">>}

\* mutant: predict is given the inference as it was before the correction
reevaluate_rescored_old(m) ==
    IF trigger(m)
    THEN {<<[Corrected(m) EXCEPT !.value_alignment_scores = s], "inference_corrected">> :
             s \in predict(m.current_inference)}
    ELSE {<<m, "no_change">>}

\* mutant: the inference is corrected and the scores are left as they were
reevaluate_stale(m) ==
    IF trigger(m)
    THEN {<<Corrected(m), "inference_corrected">>}
    ELSE {<<m, "no_change">>}

\* Stage 2 up to the outcome.  The results are pairs <<memory, outcome>>.
\* Code.py reevaluate, lines 120-129
reevaluate(m) ==
    IF trigger(m)
    THEN {<<[Corrected(m) EXCEPT !.value_alignment_scores = s], "inference_corrected">> :
             s \in predict(Corrected(m).current_inference)}
    ELSE {<<m, "no_change">>}

\* Code3.py reevaluate_memory, lines 135-173: issues is the set of principles
\* flagged, ok is random.random() < 0.7
reevaluate_memory(m) ==
    {<<IF issues # {} /\ ok THEN Corrected(m) ELSE m,
       IF issues = {} THEN "no_change"
       ELSE IF ok THEN "inference_corrected" ELSE "dissonance_high">> :
        issues \in SUBSET Flaggable(m), ok \in BOOLEAN}

\* Code3.py reevaluate_memory, lines 392-407: need is random.random() < 0.3
reevaluate_memory_chance(m) ==
    {<<IF need /\ ok THEN Corrected(m) ELSE m,
       IF ~need THEN "no_change"
       ELSE IF ok THEN "inference_corrected" ELSE "dissonance_high">> :
        need \in BOOLEAN, ok \in BOOLEAN}

\* mutant: the ECS is consulted only when the outcome is a change
Reevaluate_quiet ==
    /\ pc = "reactivated"
    /\ \E r \in (IF variant = "threshold" THEN reevaluate(memories[cur])
                  ELSE IF variant = "keyword" THEN reevaluate_memory(memories[cur])
                  ELSE reevaluate_memory_chance(memories[cur])) :
          /\ memories' = [memories EXCEPT ![cur] = r[1]]
          /\ outcome' = r[2]
          /\ pc' = IF r[2] = "no_change" THEN "modulated" ELSE "evaluated"
    /\ trace' = Append(trace, "reevaluate")
    /\ UNCHANGED <<scored, variant, current_modulation, cur, signal, old_scores, pre, pre_mod,
                   lastop, done, nadds, ncycles>>

Reevaluate ==
    /\ pc = "reactivated"
    /\ \E r \in (IF variant = "threshold" THEN reevaluate(memories[cur])
                  ELSE IF variant = "keyword" THEN reevaluate_memory(memories[cur])
                  ELSE reevaluate_memory_chance(memories[cur])) :
          /\ memories' = [memories EXCEPT ![cur] = r[1]]
          /\ outcome' = r[2]
    /\ pc' = "evaluated"
    /\ trace' = Append(trace, "reevaluate")
    /\ UNCHANGED <<scored, variant, current_modulation, cur, signal, old_scores, pre, pre_mod,
                   lastop, done, nadds, ncycles>>

\* mutant: the signal is returned and the modulation stays as the cycle
\* before left it
Feedback_stale ==
    /\ pc = "evaluated"
    /\ signal' = get_feedback_signal(outcome).signal
    /\ pc' = "signalled"
    /\ trace' = Append(trace, "feedback")
    /\ UNCHANGED <<scored, variant, memories, current_modulation, cur, outcome, old_scores,
                   pre, pre_mod, lastop, done, nadds, ncycles>>

\* self.ecs.get_feedback_signal(outcome)
Feedback ==
    /\ pc = "evaluated"
    /\ current_modulation' = get_feedback_signal(outcome).modulation
    /\ signal' = get_feedback_signal(outcome).signal
    /\ pc' = "signalled"
    /\ trace' = Append(trace, "feedback")
    /\ UNCHANGED <<scored, variant, memories, cur, outcome, old_scores, pre, pre_mod, lastop,
                   done, nadds, ncycles>>

\* mutant: the shared ECS perturbs every stored memory
Apply_all(sdraws, vdraws) ==
    /\ pc = "signalled"
    /\ \E us \in sdraws, uv \in vdraws :
          memories' = [i \in DOMAIN memories |->
                          apply_modulation(memories[i], current_modulation, us, uv)]
    /\ pc' = "modulated"
    /\ trace' = Append(trace, "apply")
    /\ UNCHANGED <<scored, variant, current_modulation, cur, outcome, signal, old_scores, pre,
                   pre_mod, lastop, done, nadds, ncycles>>

\* self.ecs.apply_modulation(memory)
Apply(sdraws, vdraws) ==
    /\ pc = "signalled"
    /\ \E us \in sdraws, uv \in vdraws :
          memories' = [memories EXCEPT ![cur] = apply_modulation(@, current_modulation, us, uv)]
    /\ pc' = "modulated"
    /\ trace' = Append(trace, "apply")
    /\ UNCHANGED <<scored, variant, current_modulation, cur, outcome, signal, old_scores, pre,
                   pre_mod, lastop, done, nadds, ncycles>>

\* mutant: the shifts are added to those of the cycle before
diagnose_accumulated(m, old) ==
    [m EXCEPT !.agreement_shift = @ + Mean(old) - Mean(m.value_alignment_scores),
              !.mischievous_shift = @ + Abs(Std(m.value_alignment_scores) - Std(old))]

\* Code.py lines 109-114: the shift diagnostics
diagnose(m, old) ==
    [m EXCEPT !.agreement_shift = Mean(old) - Mean(m.value_alignment_scores),
              !.mischievous_shift = Abs(Std(m.value_alignment_scores) - Std(old))]

\* mutant: the shifts are computed only when the inference was corrected
Diagnose_on_change ==
    /\ pc = "modulated"
    /\ variant = "threshold"
    /\ memories' = [memories EXCEPT ![cur] =
                        IF outcome = "no_change" THEN @ ELSE diagnose(@, old_scores)]
    /\ pc' = "diagnosed"
    /\ trace' = Append(trace, "diagnose")
    /\ UNCHANGED <<scored, variant, current_modulation, cur, outcome, signal, old_scores, pre,
                   pre_mod, lastop, done, nadds, ncycles>>

\* back in run_rmm_cycle of Code.py, between reevaluate and rewrite
Diagnose ==
    /\ pc = "modulated"
    /\ variant = "threshold"
    /\ memories' = [memories EXCEPT ![cur] = diagnose(@, old_scores)]
    /\ pc' = "diagnosed"
    /\ trace' = Append(trace, "diagnose")
    /\ UNCHANGED <<scored, variant, current_modulation, cur, outcome, signal, old_scores, pre,
                   pre_mod, lastop, done, nadds, ncycles>>

\* mutant: the cycle returns after rewriting, without retaining
Rewrite_returns ==
    /\ pc = (IF variant = "threshold" THEN "diagnosed" ELSE "modulated")
    /\ memories' = [memories EXCEPT ![cur] =
                        IF variant = "threshold" THEN rewrite(@, outcome)
                        ELSE rewrite_memory(@, outcome)]
    /\ pc' = "idle"
    /\ trace' = Append(trace, "rewrite")
    /\ UNCHANGED <<scored, variant, current_modulation, cur, outcome, signal, old_scores, pre,
                   pre_mod, lastop, done, nadds, ncycles>>

\* Stage 3
Rewrite ==
    /\ pc = (IF variant = "threshold" THEN "diagnosed" ELSE "modulated")
    /\ memories' = [memories EXCEPT ![cur] =
                        IF variant = "threshold" THEN rewrite(@, outcome)
                        ELSE rewrite_memory(@, outcome)]
    /\ pc' = "rewritten"
    /\ trace' = Append(trace, "rewrite")
    /\ UNCHANGED <<scored, variant, current_modulation, cur, outcome, signal, old_scores, pre,
                   pre_mod, lastop, done, nadds, ncycles>>

\* Stage 4, and the return of run_rmm_cycle
Retain ==
    /\ pc = "rewritten"
    /\ memories' = [memories EXCEPT ![cur] = retain(@)]
    /\ done' = [done EXCEPT ![cur] = @ + 1]
    /\ pc' = "idle"
    /\ cur' = "none"
    /\ trace' = Append(trace, "retain")
    /\ UNCHANGED <<scored, variant, current_modulation, outcome, signal, old_scores, pre,
                   pre_mod, lastop, nadds, ncycles>>

\* language_ai_nn.predict(text) called on its own: the loop of predict runs
\* over every principle of the table
Predict(text) ==
    /\ pc = "idle"
    /\ variant = "threshold"
    /\ \E s \in ScoreMaps(DOMAIN value_spectrum_keywords, text) :
          scored' = [text |-> text, scores |-> s]
    /\ UNCHANGED <<variant, memories, current_modulation, pc, cur, outcome, signal,
                   old_scores, trace, pre, pre_mod, lastop, done, nadds, ncycles>>

(***************************************************************************)
(* Specifications                                                          *)
(***************************************************************************)
NextWith(ids, inputs, sdraws, vdraws, maxOps) ==
    \/ \E id \in ids, a \in inputs :
          add_memory(id, a.content, a.inference, a.valence, maxOps)
    \/ \E id \in ids : NotFound(id, maxOps)
    \/ \E id \in ids : Reactivate(id, maxOps)
    \/ Reevaluate
    \/ Feedback
    \/ Apply(sdraws, vdraws)
    \/ Diagnose
    \/ Rewrite
    \/ Retain

Next == NextWith(IDs, AddInputs, StrengthDraws, ValenceDraws, MaxOps)

Spec == Init /\ [][Next]_vars

\* one memory, no perturbation, many cycles
NextLong == NextWith(LongIDs, LongInputs, LongDraws, LongDraws, MaxOpsLong)

SpecLong == Init /\ [][NextLong]_vars

\* the scorer alone
NextScorer == \E text \in Texts : Predict(text)

SpecScorer == Init /\ [][NextScorer]_vars

(***************************************************************************)
(* Properties                                                              *)
(***************************************************************************)
Stored == DOMAIN memories

InRange(v) == 0 - Scale <= v /\ v <= Scale

\* a run_rmm_cycle call on a stored identifier has returned and nothing
\* was called since
CycleDone == pc = "idle" /\ lastop.op = "cycle"

\* C1: for every stored memory, whenever no cycle is running (so after any
\* completed cycle, in any engine, for any outcome), strength >= 0.1.
C1_StrengthFloor ==
    pc = "idle" => \A id \in Stored : memories[id].strength >= MinStrength

\* C2: after any completed cycle on a memory, whatever initial_valence was
\* given to add_memory, its current_valence lies in [-1.0, 1.0].
C2_ValenceRange ==
    pc = "idle" =>
        \A id \in Stored : done[id] > 0 => InRange(memories[id].current_valence)

C2_Witness ==
    /\ CycleDone
    /\ ~InRange(memories[lastop.id].initial_valence)
    /\ InRange(memories[lastop.id].current_valence)

\* C3: a run_rmm_cycle call on a stored identifier leaves that memory's
\* reprocessing_count exactly 1 higher than it was when the call was made, and
\* a call with an identifier that is not stored leaves every count as it was.
C3_CountStep ==
    /\ CycleDone =>
           memories[lastop.id].reprocessing_count = pre[lastop.id].reprocessing_count + 1
    /\ lastop.op = "notfound" =>
           /\ DOMAIN pre = Stored
           /\ \A id \in Stored :
                  memories[id].reprocessing_count = pre[id].reprocessing_count

C3_Witness ==
    /\ lastop.op = "notfound"
    /\ \E id \in Stored : memories[id].reprocessing_count = 1

\* C4: a run_rmm_cycle call with an identifier that is not stored returns
\* with the stored identifiers, every attribute of every stored memory and the
\* current modulation all as they were when the call was made.
C4_NotFoundNoEffect ==
    lastop.op = "notfound" =>
        /\ pc = "idle"
        /\ lastop.id \notin Stored
        /\ memories = pre
        /\ current_modulation = pre_mod

C4_Witness ==
    /\ lastop.op = "notfound"
    /\ Stored # {}
    /\ current_modulation # baseline_modulation_strength

\* C5: a stored memory has is_adaptive false as long as no cycle on it has
\* completed and true once one has; retaining a memory twice gives what
\* retaining it once gives.
C5_Adaptive ==
    \A id \in Stored :
        /\ done[id] = 0 => ~memories[id].is_adaptive
        /\ done[id] > 0 => memories[id].is_adaptive
        /\ retain(retain(memories[id])) = retain(memories[id])
        /\ retain(memories[id]).is_adaptive

C5_Witness ==
    \E id \in Stored : done[id] = 2 /\ memories[id].is_adaptive

\* the step is an add_memory call with identifier id
IsAddOf(id) == nadds' = nadds + 1 /\ lastop'.id = id

\* C6, as claimed: once the memory stored under an identifier has is_adaptive
\* true, the memory stored under that identifier has it true in the next
\* state, whatever the step.
C6_NeverReverts ==
    [][\A id \in Stored :
          memories[id].is_adaptive => (id \in DOMAIN memories' /\ memories'[id].is_adaptive)]_vars

\* C6, amended: is_adaptive stays true through every step that is not an
\* add_memory call with that identifier; such a call stores a memory whose
\* is_adaptive is false.
C6_NeverRevertsWhileStored ==
    [][\A id \in Stored :
          /\ (memories[id].is_adaptive /\ ~IsAddOf(id)) =>
                 (id \in DOMAIN memories' /\ memories'[id].is_adaptive)
          /\ IsAddOf(id) => ~memories'[id].is_adaptive]_vars

C6_Witness ==
    \E id \in Stored :
        /\ memories[id].is_adaptive
        /\ \/ cur = id /\ pc # "idle"
           \/ lastop.op = "add" /\ lastop.id # id /\ Cardinality(Stored) = 2

\* C7, as claimed: the reprocessing_count of the memory stored under an
\* identifier never decreases from one state to the next.
C7_CountNonDecreasing ==
    [][\A id \in Stored :
          id \in DOMAIN memories' /\
          memories'[id].reprocessing_count >= memories[id].reprocessing_count]_vars

\* C7, amended: the count never decreases in a step that is not an add_memory
\* call with that identifier; such a call stores a memory whose count is 0.
C7_CountNonDecreasingWhileStored ==
    [][\A id \in Stored :
          /\ ~IsAddOf(id) =>
                 (id \in DOMAIN memories' /\
                  memories'[id].reprocessing_count >= memories[id].reprocessing_count)
          /\ IsAddOf(id) => memories'[id].reprocessing_count = 0]_vars

C7_Witness ==
    \E id \in Stored :
        /\ memories[id].reprocessing_count = 1
        /\ lastop.op = "add" /\ lastop.id # id

\* the steps of one cycle, in the order of the code
CycleSteps ==
    IF variant = "threshold"
    THEN <<"reactivate", "reevaluate", "feedback", "apply", "diagnose", "rewrite", "retain">>
    ELSE <<"reactivate", "reevaluate", "feedback", "apply", "rewrite", "retain">>

IsStage(x) == x \in {"reactivate", "reevaluate", "rewrite", "retain"}

\* a step of the running cycle
CycleStep == Reevaluate \/ Feedback \/ Apply(StrengthDraws, ValenceDraws) \/ Diagnose \/ Rewrite \/ Retain

\* C8: the steps a cycle has executed are always an initial part of the
\* code's order, a running cycle can always take its next step, and a cycle
\* that has returned has executed Reactivate, Re-evaluate, Rewrite, Retain once
\* each, in that order.
C8_StageOrder ==
    /\ lastop.op = "cycle" =>
           /\ Len(trace) <= Len(CycleSteps)
           /\ trace = SubSeq(CycleSteps, 1, Len(trace))
           /\ (pc = "idle") = (Len(trace) = Len(CycleSteps))
    /\ pc # "idle" => (lastop.op = "cycle" /\ cur = lastop.id /\ ENABLED CycleStep)
    /\ CycleDone =>
           SelectSeq(trace, IsStage) = <<"reactivate", "reevaluate", "rewrite", "retain">>

C8_Witness ==
    /\ CycleDone
    /\ ncycles = 2
    /\ trace[Len(trace)] = "retain"

Positions(x) == {i \in DOMAIN trace : trace[i] = x}

\* C9: in every cycle, whatever the outcome, get_feedback_signal is called
\* once with the outcome and then apply_modulation once, both after the
\* outcome is determined and before the Rewrite stage.
C9_FeedbackThenApply ==
    lastop.op = "cycle" =>
        /\ Cardinality(Positions("feedback")) <= 1
        /\ Cardinality(Positions("apply")) <= 1
        /\ \A f \in Positions("feedback") :
               /\ \E e \in Positions("reevaluate") : e < f
               /\ outcome \in {"inference_corrected", "dissonance_high", "no_change"}
               /\ signal = get_feedback_signal(outcome).signal
               /\ current_modulation = get_feedback_signal(outcome).modulation
        /\ \A a \in Positions("apply") : \E f \in Positions("feedback") : f < a
        /\ \A r \in Positions("rewrite") : \E a \in Positions("apply") : a < r
        /\ pc = "idle" =>
               Cardinality(Positions("feedback")) = 1 /\ Cardinality(Positions("apply")) = 1

C9_Witness ==
    /\ CycleDone
    /\ outcome = "dissonance_high"
    /\ Positions("feedback") = {3} /\ Positions("apply") = {4}

\* C10: the Rewrite stage with outcome inference_corrected starts from a
\* strength s >= 0.1 and a valence v in [-1, 1] and leaves strength s * 1.1
\* (which is in the strength range), current_valence min(1.0, v + 0.1), and
\* every other attribute as it was.
C10_RewriteCorrected ==
    [][(pc' = "rewritten" /\ pc # "rewritten" /\ outcome = "inference_corrected") =>
          LET m == memories[cur]
              n == memories'[cur]
          IN  /\ m.strength >= MinStrength
              /\ InRange(m.current_valence)
              /\ n.strength = Max(MinStrength, (m.strength * 11) \div 10)
              /\ n.strength = (m.strength * 11) \div 10
              /\ n.current_valence = Min(Scale, m.current_valence + Scale \div 10)
              /\ n = [m EXCEPT !.strength = n.strength, !.current_valence = n.current_valence]
              /\ \A id \in Stored \ {cur} : memories'[id] = memories[id]]_vars

C10_Witness ==
    /\ pc = "rewritten"
    /\ outcome = "inference_corrected"
    /\ memories[cur].current_valence = Scale
    /\ memories[cur].strength > Scale

\* C11: the Rewrite stage with outcome dissonance_high, started from a
\* strength s >= 0.1 and a valence v in [-1, 1], leaves strength
\* max(0.1, s * 0.8) and current_valence max(-1.0, v - 0.1).
C11_RewriteDissonance ==
    [][(pc' = "rewritten" /\ pc # "rewritten" /\ outcome = "dissonance_high") =>
          LET m == memories[cur]
              n == memories'[cur]
          IN  (m.strength >= MinStrength /\ InRange(m.current_valence)) =>
                  /\ n.strength = Max(MinStrength, (m.strength * 8) \div 10)
                  /\ n.current_valence = Max(0 - Scale, m.current_valence - Scale \div 10)]_vars

\* the values the modulation is said to take: 0.5, 1.0 and 1.5 times 0.1
ModulationLevels == {(5 * Scale) \div 100, (10 * Scale) \div 100, (15 * Scale) \div 100}

\* C12: current_modulation is always 0.05, 0.1 or 0.15; once
\* get_feedback_signal has been called in a cycle, the modulation and the
\* signal are those of the cycle's outcome alone (0.15 and plasticity_enhanced
\* for inference_corrected, 0.05 and processing_needed for dissonance_high,
\* 0.1 and neutral for anything else), whatever the modulation was before;
\* and the mapping answers every outcome.
C12_FeedbackMapping ==
    /\ current_modulation \in ModulationLevels
    /\ (lastop.op = "cycle" /\ Positions("feedback") # {}) =>
           /\ outcome = "inference_corrected" =>
                  current_modulation = (15 * Scale) \div 100 /\ signal = "plasticity_enhanced"
           /\ outcome = "dissonance_high" =>
                  current_modulation = (5 * Scale) \div 100 /\ signal = "processing_needed"
           /\ outcome \notin {"inference_corrected", "dissonance_high"} =>
                  current_modulation = (10 * Scale) \div 100 /\ signal = "neutral"
    /\ \A o \in {"inference_corrected", "dissonance_high", "no_change", "no_memory", "none"} :
           /\ get_feedback_signal(o).modulation \in ModulationLevels
           /\ get_feedback_signal(o).signal \in {"plasticity_enhanced", "processing_needed", "neutral"}

C12_Witness ==
    /\ pc = "signalled"
    /\ pre_mod = (15 * Scale) \div 100
    /\ current_modulation = (5 * Scale) \div 100

\* C13: predict gives each principle a score in the band its keyword counts
\* in the lower-cased text select: negative keywords only, [0.65, 1.0];
\* positive only, [0.0, 0.35]; both, [0.25, 0.75]; neither, [0.30, 0.70]; and
\* the result has one entry for each of the seven principles.
C13_ScoreBands ==
    scored # NoCall =>
        /\ DOMAIN scored.scores =
               {"Pride", "Envy", "Gluttony", "Lust", "Anger", "Greed", "Sloth"}
        /\ \A p \in DOMAIN scored.scores :
               LET neg == sin_score(p, scored.text) > 0
                   pos == virtue_score(p, scored.text) > 0
                   v == scored.scores[p]
               IN  /\ (neg /\ ~pos) => ((65 * Scale) \div 100 <= v /\ v <= Scale)
                   /\ (pos /\ ~neg) => (0 <= v /\ v <= (35 * Scale) \div 100)
                   /\ (neg /\ pos) => ((25 * Scale) \div 100 <= v /\ v <= (75 * Scale) \div 100)
                   /\ (~neg /\ ~pos) => ((30 * Scale) \div 100 <= v /\ v <= (70 * Scale) \div 100)

C13_Witness ==
    /\ scored.text = TModest
    /\ scored.scores["Pride"] = 0
    /\ scored.scores["Envy"] = Scale
    /\ scored.scores["Sloth"] = (70 * Scale) \div 100

\* the threshold engine has run add_memory once and then one whole cycle, on
\* a memory whose inference held a negative keyword of Pride and no positive one
BoastfulScenario ==
    /\ variant = "threshold"
    /\ CycleDone
    /\ nadds = 1 /\ ncycles = 1
    /\ sin_score("Pride", pre[lastop.id].current_inference) > 0
    /\ virtue_score("Pride", pre[lastop.id].current_inference) = 0

\* C14, as claimed: in that scenario the cycle's outcome is inference_corrected
\* whatever the score draws were, and the memory is adaptive with a count of 1.
C14_BoastfulAlwaysCorrected ==
    BoastfulScenario =>
        /\ outcome = "inference_corrected"
        /\ memories[lastop.id].is_adaptive
        /\ memories[lastop.id].reprocessing_count = 1

\* C14, amended: in that scenario the Pride score drawn by add_memory is at
\* least 0.65, the outcome is inference_corrected exactly when one of the
\* scores drawn by add_memory is above 0.75 and no_change otherwise, and either
\* way the memory is adaptive with a count of 1.
C14_BoastfulScenario ==
    BoastfulScenario =>
        LET before == pre[lastop.id].value_alignment_scores
        IN  /\ before["Pride"] >= (65 * Scale) \div 100
            /\ outcome \in {"inference_corrected", "no_change"}
            /\ (outcome = "inference_corrected") =
                   (\E p \in DOMAIN before : before[p] > (75 * Scale) \div 100)
            /\ memories[lastop.id].is_adaptive
            /\ memories[lastop.id].reprocessing_count = 1

C14_Witness ==
    /\ BoastfulScenario
    /\ outcome = "inference_corrected"
    /\ pre[lastop.id].value_alignment_scores["Pride"] = Scale

\* C15: in the threshold engine, re-evaluation ends inference_corrected
\* exactly when a score of the memory is above 0.75 when it starts; then
\* current_inference becomes "Improved perspective: " + content and the scores
\* are a result of predict for that text; otherwise it ends no_change and
\* current_inference and the scores are as they were.
C15_ThresholdReevaluate ==
    [][(variant = "threshold" /\ pc = "reactivated" /\ pc' = "evaluated") =>
          LET m == memories[cur]
              n == memories'[cur]
              flagged == {k \in DOMAIN m.value_alignment_scores :
                             m.value_alignment_scores[k] > (75 * Scale) \div 100}
          IN  /\ outcome' = (IF flagged # {} THEN "inference_corrected" ELSE "no_change")
              /\ flagged # {} =>
                     /\ n.current_inference = <<"Improved", "perspective:">> \o m.content
                     /\ n.value_alignment_scores \in predict(n.current_inference)
              /\ flagged = {} =>
                     /\ n.current_inference = m.current_inference
                     /\ n.value_alignment_scores = m.value_alignment_scores]_vars

C15_Witness ==
    /\ variant = "threshold"
    /\ pc = "evaluated"
    /\ outcome = "inference_corrected"
    /\ memories[cur].current_inference # pre[cur].current_inference
    /\ memories[cur].value_alignment_scores # old_scores

\* C16: when add_memory(identifier, content, inference, valence) returns, the
\* memory stored under identifier has that content, current_inference =
\* inference, current_valence = initial_valence = valence, strength 1.0,
\* reprocessing_count 0 and is_adaptive false, and in the engine that scores
\* (Code.py) its value_alignment_scores are a non-empty result of predict for
\* inference; so the scores copied when a cycle starts are never empty and
\* their mean is defined.
C16_AddMemory ==
    /\ lastop.op = "add" =>
           LET m == memories[lastop.id]
           IN  /\ m.identifier = lastop.id
               /\ m.content = lastop.content
               /\ m.current_inference = lastop.inference
               /\ m.current_valence = lastop.valence
               /\ m.initial_valence = lastop.valence
               /\ m.strength = Scale
               /\ m.reprocessing_count = 0
               /\ ~m.is_adaptive
               /\ variant = "threshold" =>
                      /\ DOMAIN m.value_alignment_scores # {}
                      /\ m.value_alignment_scores \in predict(lastop.inference)
    /\ (variant = "threshold" /\ pc # "idle") => DOMAIN old_scores # {}

C16_Witness ==
    /\ variant = "threshold"
    /\ pc = "reactivated"
    /\ pre[cur].reprocessing_count = 0
    /\ old_scores \in predict(TBoast)
    /\ nadds = 2

\* C17: between cycles add_memory can be called with any identifier that is
\* already stored; whatever its other arguments, the call leaves the set of
\* stored identifiers as it was, stores under the identifier a memory as the
\* constructor makes it from the arguments (count 0, not adaptive, strength
\* 1.0, shifts 0), and leaves the memory under every other identifier as it
\* was.  Every memory is stored under its own identifier.
C17_ReaddReplaces ==
    /\ [](\A id \in Stored : memories[id].identifier = id)
    /\ []((pc = "idle" /\ nadds + ncycles < MaxOps) =>
             \A id \in Stored :
                 ENABLED (\E a \in AddInputs :
                             add_memory(id, a.content, a.inference, a.valence, MaxOps)))
    /\ [][\A id \in Stored : IsAddOf(id) =>
             /\ DOMAIN memories' = DOMAIN memories
             /\ \A o \in Stored \ {id} : memories'[o] = memories[o]
             /\ [memories'[id] EXCEPT !.value_alignment_scores = NoScores] =
                    Memory(id, lastop'.content, lastop'.inference, lastop'.valence)]_vars

C17_Witness ==
    /\ lastop.op = "add"
    /\ nadds = 2
    /\ Stored = {lastop.id}
    /\ current_modulation # baseline_modulation_strength
    /\ memories[lastop.id].reprocessing_count = 0
    /\ ~memories[lastop.id].is_adaptive

\* C18: when a cycle of the Code.py engine has returned, the memory's
\* agreement_shift is the mean of the scores it had when the cycle was entered
\* minus the mean of the scores it has now, and its mischievous_shift is the
\* absolute difference of their standard deviations, whatever the two shifts
\* were before the cycle; a second cycle in a row leaves the count at 2.
C18_ShiftsFresh ==
    (variant = "threshold" /\ CycleDone) =>
        LET before == pre[lastop.id]
            after == memories[lastop.id]
        IN  /\ after.agreement_shift =
                   Mean(before.value_alignment_scores) - Mean(after.value_alignment_scores)
            /\ after.mischievous_shift =
                   Abs(Std(after.value_alignment_scores) - Std(before.value_alignment_scores))
            /\ after.reprocessing_count = done[lastop.id]

C18_Witness ==
    /\ variant = "threshold"
    /\ CycleDone
    /\ memories[lastop.id].reprocessing_count = 2
    /\ pre[lastop.id].agreement_shift # 0
    /\ pre[lastop.id].mischievous_shift # 0
    /\ memories[lastop.id].agreement_shift = 0

\* C19: in every state, every score of every stored memory lies in [0, 1]
\* (and so does every score of the copy a running cycle holds).
C19_ScoresInUnitRange ==
    /\ \A id \in Stored : \A p \in DOMAIN memories[id].value_alignment_scores :
           /\ 0 <= memories[id].value_alignment_scores[p]
           /\ memories[id].value_alignment_scores[p] <= Scale
    /\ \A p \in DOMAIN old_scores : 0 <= old_scores[p] /\ old_scores[p] <= Scale

C19_Witness ==
    /\ CycleDone
    /\ \E id \in Stored :
           /\ "Pride" \in DOMAIN memories[id].value_alignment_scores
           /\ memories[id].value_alignment_scores["Pride"] = Scale

\* v is in the band, widened by the jitter, that the keywords of text select
\* for principle p
InBandOf(p, text, v) ==
    LET neg == sin_score(p, text) > 0
        pos == virtue_score(p, text) > 0
    IN  IF neg /\ ~pos THEN (65 * Scale) \div 100 <= v /\ v <= Scale
        ELSE IF pos /\ ~neg THEN 0 <= v /\ v <= (35 * Scale) \div 100
        ELSE IF neg /\ pos THEN (25 * Scale) \div 100 <= v /\ v <= (75 * Scale) \div 100
        ELSE (30 * Scale) \div 100 <= v /\ v <= (70 * Scale) \div 100

\* C20: in every state of the Code.py engine, each stored memory has a score
\* for every principle scored, and each score lies in the band that the
\* keywords of the memory's present current_inference select.
C20_ScoresOfPresentInference ==
    variant = "threshold" =>
        \A id \in Stored :
            /\ DOMAIN memories[id].value_alignment_scores = value_principles
            /\ \A p \in value_principles :
                   InBandOf(p, memories[id].current_inference,
                            memories[id].value_alignment_scores[p])

C20_Witness ==
    /\ variant = "threshold"
    /\ pc = "evaluated"
    /\ outcome = "inference_corrected"
    /\ old_scores["Pride"] = Scale
    /\ memories[cur].value_alignment_scores["Pride"] <= (70 * Scale) \div 100
    /\ memories[cur].current_inference = <<"Improved", "perspective:">> \o TPlain

\* C21: a run_rmm_cycle call on a stored identifier returns with the same
\* identifiers stored and with the memory under every other identifier as it
\* was when the call was made, and no step of a cycle changes the identifier,
\* the content or the initial_valence of the memory it works on, nor anything
\* of another memory.
C21_CycleFrame ==
    /\ [](CycleDone =>
             /\ DOMAIN memories = DOMAIN pre
             /\ \A o \in Stored \ {lastop.id} : memories[o] = pre[o]
             /\ memories[lastop.id].identifier = pre[lastop.id].identifier
             /\ memories[lastop.id].content = pre[lastop.id].content
             /\ memories[lastop.id].initial_valence = pre[lastop.id].initial_valence)
    /\ [][(pc # "idle" \/ pc' # "idle") =>
             LET t == IF pc = "idle" THEN cur' ELSE cur
             IN  /\ DOMAIN memories' = DOMAIN memories
                 /\ \A o \in Stored \ {t} : memories'[o] = memories[o]
                 /\ memories'[t].identifier = memories[t].identifier
                 /\ memories'[t].content = memories[t].content
                 /\ memories'[t].initial_valence = memories[t].initial_valence]_vars

C21_Witness ==
    /\ CycleDone
    /\ Cardinality(Stored) = 2
    /\ memories[lastop.id].strength # pre[lastop.id].strength
    /\ memories[lastop.id].current_inference # pre[lastop.id].current_inference
    /\ current_modulation # pre_mod

\* C22: in every state, also between add_memory and the first cycle on the
\* memory and whatever initial_valence was given, the current_valence of
\* every stored memory lies in [-1.0, 1.0].
C22_ValenceAlwaysInRange ==
    \A id \in Stored : InRange(memories[id].current_valence)

\* no scored principle has a negative keyword and no positive one in text
NoNegativeOnly(text) ==
    \A p \in value_principles : ~(sin_score(p, text) > 0 /\ virtue_score(p, text) = 0)

\* C23: in the Code.py engine, a memory whose inference gives no principle
\* negative-only matches has no score above 0.75 (a score of exactly 0.75
\* does not count), every re-evaluation of it ends no_change, and no step
\* other than a new add_memory under its identifier changes its
\* current_inference or its scores.
C23_NeverTriggers ==
    /\ [](variant = "threshold" =>
             \A id \in Stored : NoNegativeOnly(memories[id].current_inference) =>
                 \A p \in DOMAIN memories[id].value_alignment_scores :
                     memories[id].value_alignment_scores[p] <= (75 * Scale) \div 100)
    /\ [][variant = "threshold" =>
             \A id \in Stored :
                 (NoNegativeOnly(memories[id].current_inference) /\ ~IsAddOf(id)) =>
                     /\ memories'[id].current_inference = memories[id].current_inference
                     /\ memories'[id].value_alignment_scores = memories[id].value_alignment_scores
                     /\ (cur = id /\ pc = "reactivated" /\ pc' = "evaluated") =>
                            outcome' = "no_change"]_vars

C23_Witness ==
    /\ variant = "threshold"
    /\ CycleDone
    /\ done[lastop.id] = 2
    /\ outcome = "no_change"
    /\ memories[lastop.id].current_inference = TMixed
    /\ memories[lastop.id].value_alignment_scores["Pride"] = (75 * Scale) \div 100

\* the modulation that belongs to an outcome
ModulationOf(o) ==
    IF o = "inference_corrected" THEN (15 * Scale) \div 100
    ELSE IF o = "dissonance_high" THEN (5 * Scale) \div 100
    ELSE (10 * Scale) \div 100

\* C24: when apply_modulation runs in a cycle, the modulation is the one
\* that belongs to this cycle's outcome, and the new strength and valence are
\* the old ones perturbed by that modulation times a draw, then clamped:
\* whatever modulation the cycle found when it was entered.
C24_ModulationOfThisCycle ==
    [][(pc = "signalled" /\ pc' = "modulated") =>
          LET m == memories[cur]
              n == memories'[cur]
              mod == ModulationOf(outcome)
          IN  /\ current_modulation = mod
              /\ \E us \in StrengthDraws :
                     n.strength = Max((10 * Scale) \div 100, m.strength + (mod * us) \div Scale)
              /\ \E uv \in ValenceDraws :
                     n.current_valence =
                         Max(0 - Scale, Min(Scale, m.current_valence + (mod * uv) \div Scale))]_vars

C24_Witness ==
    /\ pc = "modulated"
    /\ pre_mod = (15 * Scale) \div 100
    /\ current_modulation = (10 * Scale) \div 100
    /\ memories[cur].strength # pre[cur].strength

\* C25: in the Code.py engine no cycle ends dissonance_high: the outcome is
\* always inference_corrected or no_change (or none yet), the modulation is
\* always 0.1 or 0.15, the signal is never processing_needed, and the Rewrite
\* stage leaves strength as it was or multiplied by 1.1.
C25_NoDissonanceInThreshold ==
    /\ [](variant = "threshold" =>
             /\ outcome \in {"none", "inference_corrected", "no_change"}
             /\ current_modulation \in {(10 * Scale) \div 100, (15 * Scale) \div 100}
             /\ signal \in {"none", "plasticity_enhanced", "neutral"})
    /\ [][(variant = "threshold" /\ pc = "diagnosed" /\ pc' = "rewritten") =>
             memories'[cur].strength =
                 IF outcome = "inference_corrected" THEN (memories[cur].strength * 11) \div 10
                 ELSE memories[cur].strength]_vars

C25_Witness ==
    /\ variant = "threshold"
    /\ CycleDone
    /\ done[lastop.id] = 2
    /\ outcome = "no_change"
    /\ pre_mod = (15 * Scale) \div 100
    /\ memories[lastop.id].strength > Scale

\* C26: when a cycle of the Code.py engine has returned with outcome
\* no_change, the memory's scores are those it had when the cycle was entered
\* and its agreement_shift and mischievous_shift are both 0, whatever they
\* were before.
C26_NoChangeZeroShifts ==
    (variant = "threshold" /\ CycleDone /\ outcome = "no_change") =>
        /\ memories[lastop.id].value_alignment_scores = pre[lastop.id].value_alignment_scores
        /\ memories[lastop.id].agreement_shift = 0
        /\ memories[lastop.id].mischievous_shift = 0

C26_Witness ==
    /\ variant = "threshold"
    /\ CycleDone
    /\ outcome = "no_change"
    /\ pre[lastop.id].agreement_shift > 0
    /\ pre[lastop.id].mischievous_shift > 0
    /\ memories[lastop.id].agreement_shift = 0
    /\ memories[lastop.id].mischievous_shift = 0

\* the transformed string of a memory: the engine's fixed words, then content
Transformed(m) ==
    (IF variant = "threshold" THEN <<"Improved", "perspective:">>
     ELSE IF variant = "keyword"
          THEN <<"updated", "interpretation", "based", "on", "value", "system", "for">>
     ELSE <<"updated", "interpretation", "for">>) \o m.content

\* C27: a step that is not a new add_memory under the identifier leaves a
\* memory's current_inference as it was or makes it the transformed string of
\* the memory, and once it is the transformed string it stays so; a cycle that
\* ends inference_corrected leaves it the transformed string.
C27_InferenceTwoValues ==
    [][\A id \in Stored : ~IsAddOf(id) =>
          /\ memories'[id].current_inference \in
                 {memories[id].current_inference, Transformed(memories[id])}
          /\ memories[id].current_inference = Transformed(memories[id]) =>
                 memories'[id].current_inference = Transformed(memories[id])
          /\ (cur = id /\ pc = "reactivated" /\ outcome' = "inference_corrected") =>
                 memories'[id].current_inference = Transformed(memories[id])
          /\ Transformed(memories'[id]) = Transformed(memories[id])]_vars

C27_Witness ==
    /\ CycleDone
    /\ done[lastop.id] = 2
    /\ outcome = "inference_corrected"
    /\ pre[lastop.id].current_inference = Transformed(pre[lastop.id])
    /\ memories[lastop.id].current_inference = Transformed(memories[lastop.id])

====
